---------------------------- MODULE Spec2Model ----------------------------
(***************************************************************************)
(* Model of the toggl -> Google Calendar synchronisation of                *)
(* chienchuanw/toggl-calender-connector:                                   *)
(*   src/src/commands/sync.py            the sync command                  *)
(*   src/src/utils/google_calendar/events.py  find_existing_event,         *)
(*                                            create_event                 *)
(*   src/src/clients/google_client.py    get_calendar_service              *)
(*   src/src/handlers/menu.py            return_to_menu / display_menu     *)
(*   src/src/clients/toggl_client.py     TogglClient                       *)
(*   src/src/commands/current.py, calendars.py                             *)
(*   src/src/utils/google_calendar/settings.py  update_calendar_id         *)
(*                                                                         *)
(* Instants are naturals 0..MaxTime; an ISO time string is modelled by the *)
(* instant it denotes.  The calendar is the sequence of the events it      *)
(* stores, in the order they were inserted (ids ascend).                   *)
(***************************************************************************)
EXTENDS Integers, Sequences, FiniteSets, TLC

\* ---------------------------------------------------------------- bounds
MaxTime == 1
MaxEntries == 2
MaxPre == 1
MaxRuns == 2
MaxFaults == 1

\* ------------------------------------------------------------ data model
Times == 0..MaxTime

\* entry["description"] is never empty: toggl_client.py:79 drops such entries
Descriptions == {"Standup", "standup", "Standup "}

\* One element of the list returned by TogglClient.get_time_entries
\* (toggl_client.py:103-110): description, start, end.  duration < 0 is
\* dropped at toggl_client.py:72, so start <= end.
Entry == {e \in [description : Descriptions, start : Times, end : Times] : e.start <= e.end}

\* An event as the calendar service stores it (the body of events.py:92-102
\* plus the id the service assigns).
Event == [id : Nat, summary : Descriptions, start : Times, end : Times]

\* Python's None
None == [id |-> 0]

VARIABLES
    exclusiveBounds,  \* how the service reads timeMin/timeMax (see ListEvents)
    toggl,            \* the time entries the tracking service holds
    calendar,         \* the events of the target calendar
    pc,               \* position of the process
    preview,          \* sync's --preview option
    check_duplicate,  \* sync's --check-duplicate option
    entries,          \* sync's local `entries`
    service,          \* TRUE once get_calendar_service() returned in this run
    i,                \* number of entries the for loop has finished
    total_created,    \* sync's local total_created
    total_skipped,    \* sync's local total_skipped
    existing_event,   \* create_event's local existing_event
    result,           \* sync's local `result`, the value create_event returned
    outcome,          \* which message the run printed last
    calls,            \* the calendar calls issued in this run, in order
    failed,           \* index of the entry whose calendar call raised, or 0
    calAtStart,       \* the calendar when this run started
    runs,             \* summaries of the finished runs
    synced,           \* ids of the events inserted by sync
    allChecked,       \* every sync so far ran with check_duplicate = TRUE
    faults,           \* number of remote failures and interrupts so far
    client,           \* TRUE once TogglClient() was constructed in this run
    fetch,            \* "none", or how get_time_entries ended: "ok", "failed",
                      \* or "partial": a project lookup raised and was passed
    output,           \* the kinds of messages printed in this run, or by the
                      \* calendars command that ran last
    mixed,            \* sync was invoked with days > 0 and a start or end date
    credentials,      \* TOGGL_API_TOKEN and TOGGL_WORKSPACE_ID are both set
    unfinished,       \* raw time entries of the tracking service's answer
                      \* that are still running
    envFile,          \* GOOGLE_CALENDAR_ID as the .env file holds it
    GOOGLE_CALENDAR_ID,   \* the global of settings.py
    default_calendar_id,  \* the default of the calendar_id parameters of
                          \* events.py, bound when the module is imported
    timer,            \* the tracking service's current entry: "none",
                      \* "running" or "stopped"
    stopRequests,     \* number of stop requests sent to the tracking service
    exit_code,        \* the exit status, once pc = "exited"
    idAtImport        \* GOOGLE_CALENDAR_ID as the .env file held it when the
                      \* process imported settings.py

vars == <<exclusiveBounds, toggl, calendar, pc, preview, check_duplicate, entries,
          service, i, total_created, total_skipped, existing_event, result, outcome,
          calls, failed, calAtStart, runs, synced, allChecked, faults,
          client, fetch, output, mixed, credentials, unfinished, envFile,
          GOOGLE_CALENDAR_ID, default_calendar_id, timer, stopRequests, exit_code,
          idAtImport>>

\* what belongs to the process and its surroundings rather than to one run
procVars == <<credentials, unfinished, envFile, GOOGLE_CALENDAR_ID,
              default_calendar_id, timer, stopRequests, exit_code, idAtImport>>

\* the ids of the user's calendars (calendars.py:40-49)
CalendarIds == {"primary", "work"}

\* ----------------------------------------------------- calendar service
\* events().list(timeMin, timeMax): the service documents timeMin as an
\* exclusive lower bound on an event's end and timeMax as an exclusive upper
\* bound on an event's start; the specification reads the range as the closed
\* interval [start, end].  Which of the two the service applies is fixed in
\* Init and is not decided by the program.
Overlaps(ev, timeMin, timeMax) ==
    IF exclusiveBounds
    THEN ev.end > timeMin /\ ev.start < timeMax
    ELSE ev.end >= timeMin /\ ev.start <= timeMax

\* Under the exclusive reading the service rejects an empty range
\* (timeMin >= timeMax) and execute() raises.
RangeRejected(timeMin, timeMax) == exclusiveBounds /\ timeMin >= timeMax

\* orderBy='startTime': ascending start; events with equal start keep the
\* order of their ids.
RECURSIVE OrderByStartTime(_, _)
OrderByStartTime(events, t) ==
    IF t > MaxTime
    THEN <<>>
    ELSE SelectSeq(events, LAMBDA ev : ev.start = t) \o OrderByStartTime(events, t + 1)

\* events_result.get('items', []) of events.py:42-50
ListEvents(cal, timeMin, timeMax) ==
    OrderByStartTime(SelectSeq(cal, LAMBDA ev : Overlaps(ev, timeMin, timeMax)), 0)

\* ------------------------------------------------------------- events.py
\* lower-cased and stripped, for the descriptions of the model
Normalize(str) == IF str \in {"standup", "Standup "} THEN "Standup" ELSE str

\* mutant: the comparison ignores case and surrounding whitespace
SummaryMatches_Normalized(summary, description) ==
    Normalize(summary) = Normalize(description)

\* event.get('summary', '') == description, events.py:54
SummaryMatches(summary, description) == summary = description

\* mutant: every returned event is flagged as existing
Mark_AlwaysExisting(ev, flag) ==
    [id |-> ev.id, summary |-> ev.summary, start |-> ev.start, end |-> ev.end,
     is_existing |-> TRUE]

\* event['is_existing'] = flag
Mark(ev, flag) ==
    [id |-> ev.id, summary |-> ev.summary, start |-> ev.start, end |-> ev.end,
     is_existing |-> flag]

\* mutant: a match must also start and end when the entry does
RECURSIVE FirstMatch_SameTimes(_, _, _, _, _)
FirstMatch_SameTimes(events, k, description, start_time, end_time) ==
    IF k > Len(events)
    THEN None
    ELSE IF /\ events[k].summary = description
            /\ events[k].start = start_time
            /\ events[k].end = end_time
         THEN Mark(events[k], TRUE)
         ELSE FirstMatch_SameTimes(events, k + 1, description, start_time, end_time)

\* mutant: an event inserted by sync is never taken as a match
RECURSIVE FirstMatch_NotSynced(_, _, _)
FirstMatch_NotSynced(events, k, description) ==
    IF k > Len(events)
    THEN None
    ELSE IF SummaryMatches(events[k].summary, description) /\ events[k].id \notin synced
         THEN Mark(events[k], TRUE)
         ELSE FirstMatch_NotSynced(events, k + 1, description)

\* the for loop of events.py:53-59 from position k on
RECURSIVE FirstMatch(_, _, _)
FirstMatch(events, k, description) ==
    IF k > Len(events)
    THEN None
    ELSE IF SummaryMatches(events[k].summary, description)
         THEN Mark(events[k], TRUE)
         ELSE FirstMatch(events, k + 1, description)

\* mutant of find_existing_event
find_existing_event_SameTimes(cal, description, start_time, end_time) ==
    FirstMatch_SameTimes(ListEvents(cal, start_time, end_time), 1, description,
                         start_time, end_time)

\* mutant: an event inserted by sync is never taken as a match
find_existing_event_NotSynced(cal, description, start_time, end_time) ==
    FirstMatch_NotSynced(ListEvents(cal, start_time, end_time), 1, description)

\* find_existing_event, given that the list call returned
find_existing_event(cal, description, start_time, end_time) ==
    FirstMatch(ListEvents(cal, start_time, end_time), 1, description)

\* mutant: start_time is also sent as the end of the event
NewEvent_EndIsStart(cal, description, start_time, end_time) ==
    [id |-> Len(cal) + 1, summary |-> description, start |-> start_time,
     end |-> start_time]

\* mutant: the description is not sent as the summary
NewEvent_Untitled(cal, description, start_time, end_time) ==
    [id |-> Len(cal) + 1, summary |-> "", start |-> start_time, end |-> end_time]

\* the body create_event sends to insert (events.py:92-102) with the id the
\* service assigns to it
NewEvent(cal, description, start_time, end_time) ==
    [id |-> Len(cal) + 1, summary |-> description, start |-> start_time,
     end |-> end_time]

\* mutant: the calls read the global of settings.py when they are made
TargetCalendar_Global == GOOGLE_CALENDAR_ID

\* events.py:18 and :67  calendar_id: str = GOOGLE_CALENDAR_ID; sync.py:109-115
\* passes no calendar_id, so every call uses the default, which Python
\* evaluated once, when events.py was imported
TargetCalendar == default_calendar_id

\* mutant: the existing events are queried whatever the option says
ShouldQuery_Always(check) == TRUE

\* events.py:85  if check_duplicate:
ShouldQuery(check) == check

\* ------------------------------------------------------- toggl_client.py
\* entry.get("stop", "") of an entry that has no stop time
NoStop == -1

\* One element of response.json() (toggl_client.py:52): a running entry has
\* a negative duration and no stop time.
RawEntry ==
    [description : Descriptions, start : Times, stop : Times \cup {NoStop},
     duration : -1..MaxTime]

\* the raw form of the finished entries
ToRaw(es) ==
    [k \in 1..Len(es) |->
        [description |-> es[k].description, start |-> es[k].start,
         stop |-> es[k].end, duration |-> es[k].end - es[k].start]]

\* all_entries = response.json(), toggl_client.py:50-52
RawAnswer == unfinished \o ToRaw(toggl)

\* mutant: the test of the duration is missing
Keep_NoDurationTest(r) == r.stop # NoStop

\* toggl_client.py:72-80: an entry with a negative duration is skipped, and
\* so is one without description, start or stop.  (Every instant of the
\* model lies in the requested date range, toggl_client.py:88.)
Keep(r) == ~(r.duration < 0) /\ r.stop # NoStop

\* mutant: every raw entry is returned
get_time_entries_Unfiltered(all_entries) ==
    [k \in 1..Len(all_entries) |->
        [description |-> all_entries[k].description, start |-> all_entries[k].start,
         end |-> all_entries[k].stop]]

\* toggl_client.py:69-116 the list get_time_entries builds from the answer
get_time_entries(all_entries) ==
    LET kept == SelectSeq(all_entries, Keep) IN
    [k \in 1..Len(kept) |->
        [description |-> kept[k].description, start |-> kept[k].start,
         end |-> kept[k].stop]]

\* mutant: a failed request prints nothing
FetchOutput_Silent(ok) == IF ok THEN {"fetch_start", "found"} ELSE {"fetch_start"}

\* what get_time_entries prints: toggl_client.py:43, then :115 when the
\* request succeeded and :118-132 when it raised
FetchOutput(ok) ==
    IF ok THEN {"fetch_start", "found"} ELSE {"fetch_start", "fetch_error"}

\* what get_time_entries prints about the project lookup of an entry
\* (toggl_client.py:93-101): nothing, the exception is passed over
LookupOutput(ok) == {}

\* toggl_client.py:21-25 TogglClient.__init__ raises ValueError unless both
\* environment variables are set
HasCredentials(cred) == cred

\* ---------------------------------------------------------------- sync.py
\* mutant: the conflict needs both dates
ArgsConflict_BothDates(days, start_date, end_date) ==
    days > 0 /\ start_date /\ end_date

\* sync.py:37-38  days > 0 and (start_date or end_date); a date is modelled
\* by whether the option was given
ArgsConflict(days, start_date, end_date) == days > 0 /\ (start_date \/ end_date)

\* mutant: the is_existing flag is not looked at
IsSkipped_FlagIgnored(check, res) == check /\ res # None

\* mutant: the condition is inverted
IsSkipped_Inverted(check, res) == ~(check /\ res # None /\ res.is_existing)

\* sync.py:116  check_duplicate and result and result.get("is_existing", False)
IsSkipped(check, res) == check /\ res # None /\ res.is_existing

\* sync.py:116-117  total_skipped += 1
Skipped(check, res, n) == IF IsSkipped(check, res) THEN n + 1 ELSE n

\* mutant: total_created += 1 outside the else branch
Created_Always(check, res, n) == n + 1

\* sync.py:118-119  else: total_created += 1
Created(check, res, n) == IF IsSkipped(check, res) THEN n ELSE n + 1

\* mutant: the preview test is missing
NextStep_NoPreview(es, p) == IF es = <<>> THEN "empty" ELSE "confirm"

\* mutant: the empty-list test is missing
NextStep_NoEmptyTest(es, p) == IF p THEN "preview" ELSE "confirm"

\* sync.py:61-96 where sync goes once the entries are fetched: an empty list
\* ends the run, then preview ends it, else the user is asked to confirm
NextStep(es, p) ==
    IF es = <<>> THEN "empty" ELSE IF p THEN "preview" ELSE "confirm"

\* mutant: the loop walks the entries from the last to the first
NextEntry_Reversed(es, done) == es[Len(es) - done]

\* the entry the for loop of sync.py:105 hands to create_event in its
\* (done+1)-th iteration
NextEntry(es, done) == es[done + 1]

\* one calendar call: the operation, the loop iteration that issued it, the
\* entry it was issued for and whether it returned
Call(op, idx, entry, ok) ==
    [op |-> op, idx |-> idx, entry |-> entry, ok |-> ok, calendarId |-> TargetCalendar]

RunSummary ==
    [preview |-> preview, check |-> check_duplicate, outcome |-> outcome,
     created |-> total_created, skipped |-> total_skipped, n |-> Len(entries),
     emptyAtStart |-> (calAtStart = <<>>), failed |-> failed]

\* ------------------------------------------------------------------ Init
PreEvents(n) ==
    {[k \in 1..n |-> [id |-> k, summary |-> f[k].description, start |-> f[k].start,
                      end |-> f[k].end]] : f \in [1..n -> Entry]}

Init ==
    /\ exclusiveBounds \in BOOLEAN
    /\ toggl \in UNION {[1..n -> Entry] : n \in 0..MaxEntries}
    /\ calendar \in UNION {PreEvents(n) : n \in 0..MaxPre}
    /\ pc = "menu"
    /\ preview = FALSE
    /\ check_duplicate = TRUE
    /\ entries = <<>>
    /\ service = FALSE
    /\ i = 0
    /\ total_created = 0
    /\ total_skipped = 0
    /\ existing_event = None
    /\ result = None
    /\ outcome = ""
    /\ calls = <<>>
    /\ failed = 0
    /\ calAtStart = calendar
    /\ runs = <<>>
    /\ synced = {}
    /\ allChecked = TRUE
    /\ faults = 0
    /\ client = FALSE
    /\ fetch = "none"
    /\ output = {}
    /\ mixed = FALSE
    /\ credentials = TRUE
    /\ unfinished = <<>>
    /\ envFile = "primary"
    /\ GOOGLE_CALENDAR_ID = envFile
    /\ default_calendar_id = GOOGLE_CALENDAR_ID
    /\ timer = "none"
    /\ stopRequests = 0
    /\ exit_code = 0
    /\ idAtImport = envFile

\* --------------------------------------------------------------- actions
\* the locals of a run that has not reached the calendar
FreshRun ==
    /\ service' = FALSE
    /\ i' = 0
    /\ total_created' = 0
    /\ total_skipped' = 0
    /\ existing_event' = None
    /\ result' = None
    /\ calls' = <<>>
    /\ failed' = 0
    /\ calAtStart' = calendar

\* sync.py:17-96 up to the confirmation prompt.  Conflicting date options
\* end the process with status 1 (sync.py:37-42); TogglClient() raising is
\* caught at sync.py:127-129; else the entries are fetched and shown, and an
\* empty list or preview mode ends the run.  get_time_entries returns []
\* when the request fails (toggl_client.py:117-134); when the project
\* lookup of an entry raises (lookupOk = FALSE) the entry is kept without
\* its project name (toggl_client.py:93-101).
Sync(days, start_date, end_date, p, c, fetchOk, lookupOk) ==
    /\ pc = "menu"
    /\ Len(runs) < MaxRuns
    /\ preview' = p
    /\ check_duplicate' = c
    /\ allChecked' = (allChecked /\ c)
    /\ mixed' = (days # 0 /\ ~(start_date = FALSE /\ end_date = FALSE))
    /\ FreshRun
    /\ IF ArgsConflict(days, start_date, end_date)
       THEN /\ fetchOk /\ lookupOk
            /\ pc' = "exited" /\ exit_code' = 1
            /\ output' = {"validation_error"}
            /\ outcome' = ""
            /\ client' = FALSE /\ fetch' = "none" /\ entries' = <<>>
            /\ faults' = faults
       ELSE IF ~HasCredentials(credentials)
       THEN /\ fetchOk /\ lookupOk
            /\ pc' = "ended" /\ outcome' = "error"
            /\ output' = {"range", "error"}
            /\ client' = FALSE /\ fetch' = "none" /\ entries' = <<>>
            /\ UNCHANGED <<exit_code, faults>>
       ELSE /\ (fetchOk /\ lookupOk) \/ faults < MaxFaults
            /\ lookupOk \/ (fetchOk /\ get_time_entries(RawAnswer) # <<>>)
            /\ faults' = IF fetchOk /\ lookupOk THEN faults ELSE faults + 1
            /\ client' = TRUE
            /\ fetch' = IF ~fetchOk THEN "failed"
                        ELSE IF lookupOk THEN "ok" ELSE "partial"
            /\ entries' = IF fetchOk THEN get_time_entries(RawAnswer) ELSE <<>>
            /\ IF NextStep(entries', p) = "confirm"
               THEN pc' = "confirm" /\ outcome' = ""
               ELSE pc' = "ended" /\ outcome' = NextStep(entries', p)
            /\ output' = {"range"} \cup FetchOutput(fetchOk) \cup LookupOutput(lookupOk)
                            \cup (IF NextStep(entries', p) = "confirm"
                                  THEN {"table"}
                                  ELSE IF NextStep(entries', p) = "preview"
                                       THEN {"table", "preview"}
                                       ELSE {"no_entries"})
            /\ exit_code' = exit_code
    /\ UNCHANGED <<exclusiveBounds, toggl, calendar, runs, synced, credentials,
                   unfinished, envFile, GOOGLE_CALENDAR_ID, default_calendar_id,
                   timer, stopRequests, idAtImport>>

\* mutant: the answer is not looked at
AfterConfirm_Ignored(answer) == "connect"

\* sync.py:91-96  if not Confirm.ask(...): ... return return_to_menu()
AfterConfirm(answer) == IF answer THEN "connect" ELSE "ended"

\* sync.py:91-96  Confirm.ask
ConfirmAsk(answer) ==
    /\ pc = "confirm"
    /\ pc' = AfterConfirm(answer)
    /\ outcome' = IF answer THEN outcome ELSE "cancelled"
    /\ UNCHANGED <<exclusiveBounds, toggl, calendar, preview, check_duplicate, entries,
                   service, i, total_created, total_skipped, existing_event, result,
                   calls, failed, calAtStart, runs, synced, allChecked, faults>>
    /\ UNCHANGED procVars
    /\ output' = IF answer THEN output ELSE output \cup {"cancelled"}
    /\ UNCHANGED <<client, fetch, mixed>>

\* sync.py:101-103  service = get_calendar_service(); the counters start at 0
GetCalendarService ==
    /\ pc = "connect"
    /\ service' = TRUE
    /\ total_created' = 0
    /\ total_skipped' = 0
    /\ pc' = "loop"
    /\ UNCHANGED <<exclusiveBounds, toggl, calendar, preview, check_duplicate, entries,
                   i, existing_event, result, outcome, calls, failed, calAtStart, runs,
                   synced, allChecked, faults>>
    /\ UNCHANGED procVars
    /\ UNCHANGED <<client, fetch, output, mixed>>

\* mutant: the failure is swallowed and the loop is entered
GetCalendarServiceFails_Swallowed ==
    /\ pc = "connect"
    /\ faults < MaxFaults
    /\ faults' = faults + 1
    /\ pc' = "loop"
    /\ UNCHANGED <<exclusiveBounds, toggl, calendar, preview, check_duplicate, entries,
                   service, i, total_created, total_skipped, existing_event, result,
                   outcome, calls, failed, calAtStart, runs, synced, allChecked>>
    /\ UNCHANGED procVars
    /\ UNCHANGED <<client, fetch, output, mixed>>

\* get_calendar_service raises (google_client.py:13-21); sync.py:127-129
GetCalendarServiceFails ==
    /\ pc = "connect"
    /\ faults < MaxFaults
    /\ faults' = faults + 1
    /\ pc' = "ended"
    /\ outcome' = "error"
    /\ UNCHANGED <<exclusiveBounds, toggl, calendar, preview, check_duplicate, entries,
                   service, i, total_created, total_skipped, existing_event, result,
                   calls, failed, calAtStart, runs, synced, allChecked>>
    /\ UNCHANGED procVars
    /\ output' = output \cup {"error"}
    /\ UNCHANGED <<client, fetch, mixed>>

\* mutant: the event that was found is taken out of the calendar
FindExisting_Removing ==
    /\ pc = "loop"
    /\ i < Len(entries)
    /\ ShouldQuery(check_duplicate)
    /\ LET entry == NextEntry(entries, i) IN
        /\ ~RangeRejected(entry.start, entry.end)
        /\ existing_event' =
              find_existing_event(calendar, entry.description, entry.start, entry.end)
        /\ calendar' = SelectSeq(calendar, LAMBDA ev : ev.id # existing_event'.id)
        /\ calls' = Append(calls, Call("list", i + 1, entry, TRUE))
    /\ pc' = "queried"
    /\ UNCHANGED <<exclusiveBounds, toggl, preview, check_duplicate, entries,
                   service, i, total_created, total_skipped, result, outcome, failed,
                   calAtStart, runs, synced, allChecked, faults>>
    /\ UNCHANGED procVars
    /\ UNCHANGED <<client, fetch, output, mixed>>

\* create_event with check_duplicate: events.py:85-86, the list call returns
FindExisting ==
    /\ pc = "loop"
    /\ i < Len(entries)
    /\ ShouldQuery(check_duplicate)
    /\ LET entry == NextEntry(entries, i) IN
        /\ ~RangeRejected(entry.start, entry.end)
        /\ existing_event' =
              find_existing_event(calendar, entry.description, entry.start, entry.end)
        /\ calls' = Append(calls, Call("list", i + 1, entry, TRUE))
    /\ pc' = "queried"
    /\ UNCHANGED <<exclusiveBounds, toggl, calendar, preview, check_duplicate, entries,
                   service, i, total_created, total_skipped, result, outcome, failed,
                   calAtStart, runs, synced, allChecked, faults>>
    /\ UNCHANGED procVars
    /\ UNCHANGED <<client, fetch, output, mixed>>

\* mutant: a list call that raises counts as "nothing found"
FindExistingFails_NotFound ==
    /\ pc = "loop"
    /\ i < Len(entries)
    /\ ShouldQuery(check_duplicate)
    /\ LET entry == NextEntry(entries, i) IN
        /\ \/ RangeRejected(entry.start, entry.end) /\ faults' = faults
           \/ faults < MaxFaults /\ faults' = faults + 1
        /\ calls' = Append(calls, Call("list", i + 1, entry, FALSE))
    /\ existing_event' = None
    /\ pc' = "queried"
    /\ UNCHANGED <<exclusiveBounds, toggl, calendar, preview, check_duplicate, entries,
                   service, i, total_created, total_skipped, result, outcome, failed,
                   calAtStart, runs, synced, allChecked>>
    /\ UNCHANGED procVars
    /\ UNCHANGED <<client, fetch, output, mixed>>

\* the list call raises: the exception leaves create_event and the loop and
\* is caught at sync.py:127-129
FindExistingFails ==
    /\ pc = "loop"
    /\ i < Len(entries)
    /\ ShouldQuery(check_duplicate)
    /\ LET entry == NextEntry(entries, i) IN
        /\ \/ RangeRejected(entry.start, entry.end) /\ faults' = faults
           \/ faults < MaxFaults /\ faults' = faults + 1
        /\ calls' = Append(calls, Call("list", i + 1, entry, FALSE))
    /\ failed' = i + 1
    /\ pc' = "ended"
    /\ outcome' = "error"
    /\ UNCHANGED <<exclusiveBounds, toggl, calendar, preview, check_duplicate, entries,
                   service, i, total_created, total_skipped, existing_event, result,
                   calAtStart, runs, synced, allChecked>>
    /\ UNCHANGED procVars
    /\ output' = output \cup {"error"}
    /\ UNCHANGED <<client, fetch, mixed>>

\* events.py:87-89 return existing_event, then sync.py:116-119
ReturnExisting ==
    /\ pc = "queried"
    /\ existing_event # None
    /\ result' = existing_event
    /\ total_skipped' = Skipped(check_duplicate, result', total_skipped)
    /\ total_created' = Created(check_duplicate, result', total_created)
    /\ i' = i + 1
    /\ pc' = "loop"
    /\ UNCHANGED <<exclusiveBounds, toggl, calendar, preview, check_duplicate, entries,
                   service, existing_event, outcome, calls, failed, calAtStart, runs,
                   synced, allChecked, faults>>
    /\ UNCHANGED procVars
    /\ output' = output \cup {"exists"}
    /\ UNCHANGED <<client, fetch, mixed>>

\* mutant: the insert is reached whatever the query found
AtInsert_Matched ==
    \/ pc = "loop" /\ i < Len(entries) /\ ~ShouldQuery(check_duplicate)
    \/ pc = "queried"

\* create_event reaches the insert: check_duplicate is off, or nothing matched
AtInsert ==
    \/ pc = "loop" /\ i < Len(entries) /\ ~ShouldQuery(check_duplicate)
    \/ pc = "queried" /\ existing_event = None

\* events.py:92-116 the insert returns, then sync.py:116-119
Insert ==
    /\ AtInsert
    /\ LET entry == NextEntry(entries, i)
           created_event == NewEvent(calendar, entry.description, entry.start, entry.end)
       IN /\ calendar' = Append(calendar, created_event)
          /\ synced' = synced \cup {created_event.id}
          /\ result' = Mark(created_event, FALSE)
          /\ calls' = Append(calls, Call("insert", i + 1, entry, TRUE))
    /\ total_skipped' = Skipped(check_duplicate, result', total_skipped)
    /\ total_created' = Created(check_duplicate, result', total_created)
    /\ i' = i + 1
    /\ pc' = "loop"
    /\ UNCHANGED <<exclusiveBounds, toggl, preview, check_duplicate, entries, service,
                   existing_event, outcome, failed, calAtStart, runs, allChecked, faults>>
    /\ UNCHANGED procVars
    /\ output' = output \cup {"created"}
    /\ UNCHANGED <<client, fetch, mixed>>

\* the insert raises: caught at sync.py:127-129
InsertFails ==
    /\ AtInsert
    /\ faults < MaxFaults
    /\ faults' = faults + 1
    /\ calls' = Append(calls, Call("insert", i + 1, NextEntry(entries, i), FALSE))
    /\ failed' = i + 1
    /\ pc' = "ended"
    /\ outcome' = "error"
    /\ UNCHANGED <<exclusiveBounds, toggl, calendar, preview, check_duplicate, entries,
                   service, i, total_created, total_skipped, existing_event, result,
                   calAtStart, runs, synced, allChecked>>
    /\ UNCHANGED procVars
    /\ output' = output \cup {"error"}
    /\ UNCHANGED <<client, fetch, mixed>>

\* sync returned or was killed: its locals are gone
LocalsDropped ==
    /\ preview' = FALSE
    /\ check_duplicate' = TRUE
    /\ entries' = <<>>
    /\ service' = FALSE
    /\ i' = 0
    /\ total_created' = 0
    /\ total_skipped' = 0
    /\ existing_event' = None
    /\ result' = None
    /\ outcome' = ""
    /\ calls' = <<>>
    /\ failed' = 0
    /\ calAtStart' = calendar
    /\ client' = FALSE
    /\ fetch' = "none"
    /\ output' = {}
    /\ mixed' = FALSE

\* sync.py:121-125 the loop is over: the counts are printed
Report ==
    /\ pc = "loop"
    /\ i = Len(entries)
    /\ pc' = "ended"
    /\ outcome' = "success"
    /\ UNCHANGED <<exclusiveBounds, toggl, calendar, preview, check_duplicate, entries,
                   service, i, total_created, total_skipped, existing_event, result,
                   calls, failed, calAtStart, runs, synced, allChecked, faults>>
    /\ UNCHANGED procVars
    /\ output' = output \cup {"report"}
    /\ UNCHANGED <<client, fetch, mixed>>

\* The user interrupts the loop before it is over, between two calendar
\* calls: KeyboardInterrupt is not an Exception, so sync.py:127 does not
\* catch it and the process ends; the user starts the program again.
Interrupt ==
    /\ \/ pc = "loop" /\ i < Len(entries)
       \/ pc = "queried"
    /\ faults < MaxFaults
    /\ faults' = faults + 1
    /\ runs' = Append(runs, [RunSummary EXCEPT !.outcome = "interrupted"])
    /\ pc' = "menu"
    /\ LocalsDropped
    /\ UNCHANGED <<exclusiveBounds, toggl, calendar, synced, allChecked>>
    /\ UNCHANGED procVars

\* menu.py:53-57 return_to_menu: back at the menu prompt
ReturnToMenu ==
    /\ pc = "ended"
    /\ runs' = Append(runs, RunSummary)
    /\ pc' = "menu"
    /\ LocalsDropped
    /\ UNCHANGED <<exclusiveBounds, toggl, calendar, synced, allChecked, faults>>
    /\ UNCHANGED procVars

Next ==
    \/ \E days \in {0, 7}, start_date \in BOOLEAN, end_date \in BOOLEAN,
          p \in BOOLEAN, c \in BOOLEAN, fetchOk \in BOOLEAN :
            Sync(days, start_date, end_date, p, c, fetchOk, TRUE)
    \/ \E answer \in BOOLEAN : ConfirmAsk(answer)
    \/ GetCalendarService
    \/ GetCalendarServiceFails
    \/ FindExisting
    \/ FindExistingFails
    \/ ReturnExisting
    \/ Insert
    \/ InsertFails
    \/ Report
    \/ Interrupt
    \/ ReturnToMenu

Spec == Init /\ [][Next]_vars

\* ------------------------------------------------- the other menu commands
\* menu.py:43-45  "q": raise SystemExit, status 0
Quit ==
    /\ pc = "menu"
    /\ pc' = "exited"
    /\ exit_code' = 0
    /\ UNCHANGED <<exclusiveBounds, toggl, calendar, preview, check_duplicate, entries,
                   service, i, total_created, total_skipped, existing_event, result,
                   outcome, calls, failed, calAtStart, runs, synced, allChecked, faults,
                   client, fetch, output, mixed, credentials, unfinished, envFile,
                   GOOGLE_CALENDAR_ID, default_calendar_id, timer, stopRequests,
                   idAtImport>>

\* current.py:61-62  if choice == "1": if Confirm.ask(...)
StopChosen(choice, confirmed) == choice = "1" /\ confirmed

\* current.py:12-70, the whole command up to the menu prompt.  TogglClient()
\* is outside any try (current.py:20): without credentials the ValueError
\* ends the process.  get_current_time_entry returns None when nothing is
\* running or the request fails (toggl_client.py:145-189); else the entry is
\* shown and on choice "1", confirmed, stop_current_time_entry sends the
\* PATCH (toggl_client.py:198-207), which stops the entry unless it fails.
Current(fetched, choice, confirmed, stopped) ==
    /\ pc = "menu"
    /\ IF ~HasCredentials(credentials)
       THEN /\ fetched /\ choice = "2" /\ confirmed /\ stopped
            /\ pc' = "exited" /\ exit_code' = 1
            /\ UNCHANGED <<timer, stopRequests, faults>>
       ELSE IF ~fetched \/ timer # "running"
       THEN /\ choice = "2" /\ confirmed /\ stopped
            /\ fetched \/ faults < MaxFaults
            /\ faults' = IF fetched THEN faults ELSE faults + 1
            /\ UNCHANGED <<pc, exit_code, timer, stopRequests>>
       ELSE IF StopChosen(choice, confirmed)
       THEN /\ stopped \/ faults < MaxFaults
            /\ faults' = IF stopped THEN faults ELSE faults + 1
            /\ stopRequests' = stopRequests + 1
            /\ timer' = IF stopped THEN "stopped" ELSE timer
            /\ UNCHANGED <<pc, exit_code>>
       ELSE /\ stopped
            /\ UNCHANGED <<pc, exit_code, timer, stopRequests, faults>>
    /\ UNCHANGED <<exclusiveBounds, toggl, calendar, preview, check_duplicate, entries,
                   service, i, total_created, total_skipped, existing_event, result,
                   outcome, calls, failed, calAtStart, runs, synced, allChecked,
                   client, fetch, output, mixed, credentials, unfinished, envFile,
                   GOOGLE_CALENDAR_ID, default_calendar_id, idAtImport>>

\* mutant: the global is assigned before the file is written
update_calendar_id_GlobalFirst(calendar_id, written) ==
    /\ GOOGLE_CALENDAR_ID' = calendar_id
    /\ envFile' = IF written THEN calendar_id ELSE envFile

\* settings.py:15-37  set_key rewrites the .env file, then the global of
\* settings.py is assigned; when set_key raises nothing is changed
update_calendar_id(calendar_id, written) ==
    IF written
    THEN envFile' = calendar_id /\ GOOGLE_CALENDAR_ID' = calendar_id
    ELSE UNCHANGED <<envFile, GOOGLE_CALENDAR_ID>>

\* what calendars prints after update_calendar_id returned (calendars.py:
\* 69-74): the name of the calendar when it returned True; when it returned
\* False, the message of settings.py:36 was printed before
UpdateOutput(calendar_id, returned) ==
    IF returned THEN {"calendar_set", calendar_id}
                ELSE {"update_error", "calendar_failed"}

\* calendars.py:14-80, the whole command up to the prompt of return_to_menu
\* (menu.py:54), where its messages are on the screen: the
\* calendars are listed (a failure of get_calendar_service or list_calendars
\* is caught at calendars.py:78-80), the user picks one or "q", confirms, and
\* update_calendar_id stores the pick and returns whether it was written.
Calendars(listed, choice, confirmed, written) ==
    /\ pc = "menu"
    /\ pc' = "shown"
    /\ IF listed /\ choice # "q" /\ confirmed
       THEN /\ written \/ faults < MaxFaults
            /\ faults' = IF written THEN faults ELSE faults + 1
            /\ update_calendar_id(choice, written)
            /\ output' = UpdateOutput(choice, written)
       ELSE /\ written
            /\ listed \/ (faults < MaxFaults /\ choice = "q" /\ confirmed)
            /\ faults' = IF listed THEN faults ELSE faults + 1
            /\ output' = IF listed THEN {"calendars"} ELSE {"error"}
            /\ UNCHANGED <<envFile, GOOGLE_CALENDAR_ID>>
    /\ UNCHANGED <<exclusiveBounds, toggl, calendar, preview, check_duplicate,
                   entries, service, i, total_created, total_skipped, existing_event,
                   result, outcome, calls, failed, calAtStart, runs, synced, allChecked,
                   client, fetch, mixed, credentials, unfinished,
                   default_calendar_id, timer, stopRequests, exit_code, idAtImport>>

\* menu.py:53-57 return_to_menu after calendars: Enter, and display_menu
\* clears the screen (menu.py:7)
BackToMenu ==
    /\ pc = "shown"
    /\ pc' = "menu"
    /\ output' = {}
    /\ UNCHANGED <<exclusiveBounds, toggl, calendar, preview, check_duplicate,
                   entries, service, i, total_created, total_skipped, existing_event,
                   result, outcome, calls, failed, calAtStart, runs, synced, allChecked,
                   faults, client, fetch, mixed>>
    /\ UNCHANGED procVars

\* toggl_client.py:50  requests.get(url, auth=self.auth) is given no timeout:
\* when the tracking service accepts the request of sync and never answers,
\* the call does not return and the process stays blocked in it.
SyncHangs(p, c) ==
    /\ pc = "menu"
    /\ Len(runs) < MaxRuns
    /\ HasCredentials(credentials)
    /\ preview' = p
    /\ check_duplicate' = c
    /\ allChecked' = (allChecked /\ c)
    /\ FreshRun
    /\ pc' = "fetching"
    /\ client' = TRUE
    /\ output' = {"range", "fetch_start"}
    /\ UNCHANGED <<exclusiveBounds, toggl, calendar, entries, outcome, runs, synced,
                   faults, fetch, mixed>>
    /\ UNCHANGED procVars

\* ------------------------------------------------------ one whole process
\* The entries the tracking service holds in the runs of the whole program
CliEntries == {e \in Entry : e.description = "Standup" /\ e.start = 0}

\* Still-running entries as the tracking service can report them: a negative
\* duration, no stop time, or both; and an entry that stops before it
\* starts, its duration being stop - start
Unfinished ==
    {r \in RawEntry :
        /\ r.description = "Standup"
        /\ \/ /\ r.start = 0
              /\ r.stop \in {NoStop, r.start} /\ r.duration <= 0
              /\ (r.duration < 0 \/ r.stop = NoStop)
           \/ /\ r.start = 1 /\ r.stop = 0
              /\ r.duration = r.stop - r.start}

\* The program is started on an empty calendar, the tracking service holding
\* at most one finished entry, with any environment: the
\* credentials set or not, either calendar id in the .env file, a timer
\* running or not.  settings.py:11-12 and events.py:18,67 have run.
InitCli ==
    /\ exclusiveBounds \in BOOLEAN
    /\ toggl \in {<<>>} \cup {<<e>> : e \in CliEntries}
    /\ calendar = <<>>
    /\ pc = "menu"
    /\ preview = FALSE
    /\ check_duplicate = TRUE
    /\ entries = <<>>
    /\ service = FALSE
    /\ i = 0
    /\ total_created = 0
    /\ total_skipped = 0
    /\ existing_event = None
    /\ result = None
    /\ outcome = ""
    /\ calls = <<>>
    /\ failed = 0
    /\ calAtStart = calendar
    /\ runs = <<>>
    /\ synced = {}
    /\ allChecked = TRUE
    /\ faults = 0
    /\ client = FALSE
    /\ fetch = "none"
    /\ output = {}
    /\ mixed = FALSE
    /\ credentials \in BOOLEAN
    /\ unfinished \in {<<>>} \cup {<<r>> : r \in Unfinished}
    /\ envFile \in CalendarIds
    /\ GOOGLE_CALENDAR_ID = envFile
    /\ default_calendar_id = GOOGLE_CALENDAR_ID
    /\ timer \in {"none", "running"}
    /\ stopRequests = 0
    /\ exit_code = 0
    /\ idAtImport = envFile

\* One process from its start to its exit: every command of the menu
NextCli ==
    \/ \E days \in {0, 7}, start_date \in BOOLEAN, end_date \in BOOLEAN,
          p \in BOOLEAN, c \in BOOLEAN, fetchOk \in BOOLEAN, lookupOk \in BOOLEAN :
            Sync(days, start_date, end_date, p, c, fetchOk, lookupOk)
    \/ \E answer \in BOOLEAN : ConfirmAsk(answer)
    \/ GetCalendarService
    \/ GetCalendarServiceFails
    \/ FindExisting
    \/ FindExistingFails
    \/ ReturnExisting
    \/ Insert
    \/ InsertFails
    \/ Report
    \/ ReturnToMenu
    \/ \E fetched \in BOOLEAN, choice \in {"1", "2"}, confirmed \in BOOLEAN,
          stopped \in BOOLEAN : Current(fetched, choice, confirmed, stopped)
    \/ \E p \in BOOLEAN, c \in BOOLEAN : SyncHangs(p, c)
    \/ \E listed \in BOOLEAN, choice \in CalendarIds \cup {"q"}, confirmed \in BOOLEAN,
          written \in BOOLEAN : Calendars(listed, choice, confirmed, written)
    \/ BackToMenu
    \/ Quit

SpecCli == InitCli /\ [][NextCli]_vars

\* ================================================================ claims
\* The entries of the run in progress, by position
Positions == 1..Len(entries)

\* C1: if the calendar call for entry k fails, entries k+1..N are still
\* attempted and the run ends with a report that counts the others.
\* (The code leaves the loop at the first exception: this is violated.)
C1_PartialFailureIsolation ==
    (pc = "ended" /\ failed # 0) =>
        /\ outcome = "success"
        /\ \A k \in (failed + 1)..Len(entries) : \E c \in 1..Len(calls) : calls[c].idx = k

\* Two consecutive finished runs k, k+1 with check_duplicate on, not in
\* preview, that both printed their counts, the first on an empty calendar
TwiceOnEmpty(k) ==
    /\ k + 1 <= Len(runs)
    /\ runs[k].emptyAtStart
    /\ \A r \in {k, k + 1} :
          runs[r].check /\ ~runs[r].preview /\ runs[r].outcome = "success"

Idempotent(k) ==
    /\ runs[k].created = runs[k].n /\ runs[k].skipped = 0
    /\ runs[k + 1].created = 0 /\ runs[k + 1].skipped = runs[k + 1].n

\* two entries share an instant (they overlap or touch)
Meet(a, b) == a.start <= b.end /\ b.start <= a.end

\* no two entries of the sequence have the same description and meet
NoTwoAlike(es) ==
    \A a, b \in 1..Len(es) :
        (a # b /\ es[a].description = es[b].description) => ~Meet(es[a], es[b])

\* C2 as stated: for ANY sequence of N entries, two runs with
\* check_duplicate on an initially empty calendar give created = N, skipped
\* = 0 and then created = 0, skipped = N.
C2_IdempotenceAnySequence ==
    \A k \in 1..Len(runs) : TwiceOnEmpty(k) => Idempotent(k)

\* C2 amended: the same, for sequences in which no two entries have the same
\* description and intervals that overlap or touch.
C2_Idempotence ==
    \A k \in 1..Len(runs) : (TwiceOnEmpty(k) /\ NoTwoAlike(toggl)) => Idempotent(k)

C2_Witness ==
    /\ Len(runs) = 2 /\ TwiceOnEmpty(1) /\ NoTwoAlike(toggl)
    /\ runs[1].n = 2 /\ runs[2].skipped = 2
    /\ toggl[1].description = toggl[2].description

\* C3: a preview run establishes no calendar session, issues no list or
\* insert call, creates nothing and leaves the calendar as it was.
C3_PreviewPurity ==
    /\ preview =>
          /\ ~service
          /\ calls = <<>>
          /\ total_created = 0
          /\ calendar = calAtStart
          /\ pc \in {"ended", "exited"}
    /\ \A k \in 1..Len(runs) : runs[k].preview => runs[k].created = 0

C3_Witness ==
    /\ pc = "ended" /\ preview /\ outcome = "preview"
    /\ Len(entries) = 2 /\ calendar # <<>>

\* C4: a completed run with check_duplicate off reports created = number of
\* entries and skipped = 0, whatever the calendar holds.
C4_DuplicateOffAlwaysCreates ==
    (pc = "ended" /\ outcome = "success" /\ ~check_duplicate) =>
        (total_created = Len(entries) /\ total_skipped = 0)

\* the calendar already held an event identical to the first entry
C4_Witness ==
    /\ pc = "ended" /\ outcome = "success" /\ ~check_duplicate
    /\ Len(entries) = 2
    /\ \E k \in 1..Len(calAtStart) :
          /\ calAtStart[k].summary = entries[1].description
          /\ calAtStart[k].start = entries[1].start
          /\ calAtStart[k].end = entries[1].end

\* C5: with check_duplicate on, created + skipped is the number of entries
\* already handled at every point of the loop, and the number of entries
\* when the counts are reported.
C5_CountsAddUp ==
    /\ (check_duplicate /\ pc \in {"loop", "queried"}) =>
          total_created + total_skipped = i
    /\ (check_duplicate /\ pc = "ended" /\ outcome = "success") =>
          total_created + total_skipped = Len(entries)
    /\ \A k \in 1..Len(runs) :
          (runs[k].check /\ runs[k].outcome = "success") =>
              runs[k].created + runs[k].skipped = runs[k].n

C5_Witness ==
    /\ check_duplicate /\ pc = "ended" /\ outcome = "success"
    /\ total_created = 1 /\ total_skipped = 1

\* the insert calls of the run, in the order they were issued
InsertCalls == SelectSeq(calls, LAMBDA c : c.op = "insert")

\* C6: the insert calls of a run follow the order of the input entries: each
\* is issued for the entry at its own position of the fetched sequence, and
\* the positions ascend.
C6_OrderPreservation ==
    /\ \A a \in 1..Len(InsertCalls) :
          /\ InsertCalls[a].idx \in Positions
          /\ InsertCalls[a].entry = entries[InsertCalls[a].idx]
    /\ \A a, b \in 1..Len(InsertCalls) :
          a < b => InsertCalls[a].idx < InsertCalls[b].idx
    /\ (pc # "menu" /\ entries # <<>>) => entries = toggl

C6_Witness ==
    /\ Len(InsertCalls) = 2
    /\ InsertCalls[1].entry # InsertCalls[2].entry
    /\ pc = "ended" /\ outcome = "success"

\* the entry whose list call has just returned
Queried == entries[i + 1]

\* what the calendar returns for the range of that entry
Listed == ListEvents(calendar, Queried.start, Queried.end)

\* positions of the listed events whose summary is the entry's description
Matching == {k \in 1..Len(Listed) : Listed[k].summary = Queried.description}

\* C7: find_existing_event returns the first event, in the ascending start
\* order of the list, whose summary equals the description, marked as
\* existing, and None when there is none; the event's own start and end need
\* not equal the entry's.
C7_FirstMatch ==
    pc = "queried" =>
        /\ \A a, b \in 1..Len(Listed) : a < b => Listed[a].start <= Listed[b].start
        /\ IF Matching = {}
           THEN existing_event = None
           ELSE \E k \in Matching :
                   /\ \A m \in Matching : k <= m
                   /\ existing_event = Mark(Listed[k], TRUE)

\* two events match, the one returned starts first although it was inserted
\* last, and its interval is not the entry's
C7_Witness ==
    /\ pc = "queried"
    /\ Cardinality(Matching) = 2
    /\ existing_event # None
    /\ existing_event.id = 2
    /\ existing_event.end # Queried.end

\* C8: matching is verbatim.  An event whose summary differs from the
\* description in case or surrounding whitespace is never returned as a
\* match; one entry against a calendar whose only event has such a summary
\* over the same interval gives one insert and created = 1, skipped = 0.
C8_VerbatimMatch ==
    /\ (pc = "queried" /\ existing_event # None) =>
          existing_event.summary = Queried.description
    /\ ( /\ pc = "ended" /\ outcome = "success" /\ check_duplicate
         /\ Len(entries) = 1 /\ Len(calAtStart) = 1
         /\ calAtStart[1].summary # entries[1].description
         /\ Normalize(calAtStart[1].summary) = Normalize(entries[1].description) )
       => (total_created = 1 /\ total_skipped = 0 /\ Len(InsertCalls) = 1)

C8_Witness ==
    /\ pc = "ended" /\ outcome = "success" /\ check_duplicate
    /\ entries = <<[description |-> "Standup", start |-> 0, end |-> 1]>>
    /\ calAtStart = <<[id |-> 1, summary |-> "standup", start |-> 0, end |-> 1]>>
    /\ total_created = 1

\* C9: with an empty fetched sequence the run ends at once, with nothing
\* created or skipped, no calendar session and no calendar call.
C9_EmptyInput ==
    (fetch # "none" /\ entries = <<>>) =>
        /\ pc = "ended" /\ outcome = "empty"
        /\ ~service
        /\ calls = <<>>
        /\ total_created = 0 /\ total_skipped = 0
        /\ calendar = calAtStart

C9_Witness ==
    /\ pc = "ended" /\ outcome = "empty" /\ entries = <<>>
    /\ ~preview /\ toggl = <<>>

\* C10: as long as every run had check_duplicate on, whatever run was cut
\* short by an interrupt or a failure, the calendar never holds two events
\* inserted by sync with the same summary, start and end.
C10_NoDoubleCreate ==
    allChecked =>
        \A a, b \in 1..Len(calendar) :
            ( /\ a # b
              /\ calendar[a].id \in synced /\ calendar[b].id \in synced
              /\ calendar[a].summary = calendar[b].summary )
            => (calendar[a].start # calendar[b].start \/ calendar[a].end # calendar[b].end)

\* the first run stopped after creating one event; the second skipped that
\* entry and created the other
C10_Witness ==
    /\ allChecked /\ pc = "ended" /\ outcome = "success"
    /\ Len(runs) = 1 /\ runs[1].outcome \in {"interrupted", "error"}
    /\ runs[1].created = 1
    /\ total_skipped = 1 /\ total_created = 1

\* C11: sync invoked with days > 0 and a start or an end date reports a
\* validation error and ends the process with status 1; no TogglClient was
\* constructed, nothing was fetched, no calendar session was opened and no
\* calendar call was issued.
C11_ValidationFirst ==
    mixed =>
        /\ pc = "exited" /\ exit_code = 1
        /\ output = {"validation_error"}
        /\ ~client /\ fetch = "none"
        /\ ~service /\ calls = <<>>
        /\ calendar = calAtStart

\* the conflicting options came in a second run, with credentials set and
\* entries to fetch
C11_Witness ==
    /\ mixed /\ pc = "exited" /\ credentials /\ toggl # <<>>
    /\ Len(runs) = 1 /\ runs[1].outcome = "success"

\* sync stopped on a setup error: conflicting date options, TogglClient()
\* raised, or get_calendar_service() raised
SetupError ==
    \/ mixed
    \/ outcome = "error" /\ ~client
    \/ outcome = "error" /\ client /\ ~service

\* C12: after a setup error of sync (missing credentials, failed calendar
\* authentication, conflicting date options) the process has ended with a
\* non-zero status; when sync stopped for another reason and the process
\* has ended, the status is zero.
C12_ExitStatus ==
    /\ SetupError => (pc = "exited" /\ exit_code # 0)
    /\ (pc = "exited" /\ credentials /\ ~SetupError) => exit_code = 0

\* C13: while no calendar session is established no entry is processed: no
\* list or insert call is issued, nothing is counted as created or skipped,
\* the calendar is as the run found it and no success report is printed;
\* a run that asked for the session and did not get it ends with the error
\* message.
C13_NoSessionNoBatch ==
    /\ ~service =>
          /\ pc \notin {"loop", "queried"}
          /\ calls = <<>>
          /\ total_created = 0 /\ total_skipped = 0
          /\ calendar = calAtStart
          /\ "report" \notin output /\ "created" \notin output
          /\ "exists" \notin output
    /\ ( /\ pc = "ended" /\ ~service /\ entries # <<>> /\ ~preview
         /\ outcome # "cancelled" )
       => (outcome = "error" /\ "error" \in output)

\* get_calendar_service failed in a confirmed run over MaxEntries entries
C13_Witness ==
    /\ pc = "ended" /\ outcome = "error" /\ ~service /\ client
    /\ Len(entries) = MaxEntries /\ calendar # <<>>

\* a raw entry that is still running
StillRunning(r) == r.duration < 0 \/ r.stop = NoStop

\* the entry e was made from a raw entry of the answer that is finished
FromFinished(e) ==
    \E j \in DOMAIN RawAnswer :
        /\ ~StillRunning(RawAnswer[j])
        /\ e.description = RawAnswer[j].description
        /\ e.start = RawAnswer[j].start
        /\ e.end = RawAnswer[j].stop

\* C14: get_time_entries returns one entry for each finished raw entry of
\* the answer and none for a still-running one (negative duration or no
\* stop time), so every entry sync shows and every entry passed to
\* create_event comes from a finished raw entry.
C14_NoRunningEntry ==
    /\ fetch \in {"ok", "partial"} =>
          Len(entries) = Cardinality({j \in DOMAIN RawAnswer : ~StillRunning(RawAnswer[j])})
    /\ \A k \in DOMAIN entries : FromFinished(entries[k])
    /\ \A k \in DOMAIN calls : FromFinished(calls[k].entry)

\* the answer held a still-running entry with a stop time and a finished
\* one, and the finished one reached create_event
C14_Witness ==
    /\ fetch = "ok" /\ unfinished # <<>> /\ unfinished[1].stop # NoStop
    /\ Len(toggl) = 1 /\ Len(calls) = 1 /\ calls[1].op = "insert" /\ calls[1].ok

\* C15: when sync has no entry to work on, the output holds the error
\* message of get_time_entries exactly if the request failed and its count
\* line exactly if it succeeded; in both cases the run ends with the warning
\* and without a calendar session or a calendar call.
C15_FailedFetchVisible ==
    (fetch # "none" /\ entries = <<>>) =>
        /\ (fetch = "failed") <=> ("fetch_error" \in output)
        /\ (fetch = "ok") <=> ("found" \in output)
        /\ pc = "ended" /\ "no_entries" \in output
        /\ ~service /\ calls = <<>> /\ calendar = calAtStart

\* the request failed although the tracking service holds entries
C15_Witness ==
    /\ fetch = "failed" /\ entries = <<>> /\ toggl # <<>>
    /\ pc = "ended" /\ "fetch_error" \in output

\* C16: every list and insert call of a process targets the calendar id
\* that the .env file held when the process imported the calendar module,
\* and a step that rewrites the .env file or the global of settings.py
\* sets both to the same id and leaves the id the calls use as it was.
C16_CalendarIdReadOnce ==
    /\ [](/\ default_calendar_id = idAtImport
          /\ \A k \in DOMAIN calls : calls[k].calendarId = idAtImport)
    /\ [][(envFile' # envFile \/ GOOGLE_CALENDAR_ID' # GOOGLE_CALENDAR_ID) =>
             /\ envFile' = GOOGLE_CALENDAR_ID'
             /\ envFile' # envFile /\ GOOGLE_CALENDAR_ID' # GOOGLE_CALENDAR_ID
             /\ default_calendar_id' = default_calendar_id]_vars

\* another calendar was selected, and the sync that followed created an event
C16_Witness ==
    /\ GOOGLE_CALENDAR_ID # idAtImport /\ envFile = GOOGLE_CALENDAR_ID
    /\ calls # <<>> /\ calls[Len(calls)].op = "insert" /\ calls[Len(calls)].ok
    /\ calls[Len(calls)].calendarId = idAtImport

\* C17: the current command sends no stop request and leaves the running
\* entry running.
C17_CurrentReadOnly == stopRequests = 0 /\ timer # "stopped"

\* the step appends an insert call to the calls of the run
InsertIssued ==
    /\ Len(calls') = Len(calls) + 1
    /\ calls'[Len(calls')].op = "insert"

\* C18: in a run with check_duplicate on, the calls go entry by entry, each
\* entry getting at most one list call and at most one insert call, the
\* insert right after the list; an insert is issued only when the list call
\* for the same entry has returned and the listed events hold no match; a
\* matched entry is counted as skipped with no further call, and the loop
\* moves on to the next entry.
C18_EntryLifeCycle ==
    /\ [](check_duplicate =>
            \A a, b \in DOMAIN calls :
                a < b =>
                    /\ calls[a].idx <= calls[b].idx
                    /\ calls[a].idx = calls[b].idx =>
                          /\ b = a + 1
                          /\ calls[a].op = "list" /\ calls[a].ok
                          /\ calls[b].op = "insert")
    /\ [](check_duplicate =>
            \A a \in DOMAIN calls :
                calls[a].op = "insert" =>
                    (a > 1 /\ calls[a - 1].op = "list"
                           /\ calls[a - 1].idx = calls[a].idx))
    /\ [][(check_duplicate /\ InsertIssued) =>
             /\ pc = "queried"
             /\ Matching = {}
             /\ calls[Len(calls)] = Call("list", i + 1, Queried, TRUE)
             /\ calls'[Len(calls')].idx = i + 1]_vars
    /\ [][(pc = "queried" /\ Matching # {} /\ pc' = "loop") =>
             /\ calls' = calls /\ calendar' = calendar
             /\ i' = i + 1
             /\ total_skipped' = total_skipped + 1
             /\ total_created' = total_created]_vars

\* of two entries the first was created and the second matched
C18_Witness ==
    /\ check_duplicate /\ pc = "ended" /\ outcome = "success"
    /\ Len(calls) = 3 /\ calls[2].op = "insert" /\ calls[3].op = "list"
    /\ total_created = 1 /\ total_skipped = 1

\* C19: in a run with check_duplicate off every calendar call is an insert,
\* the k-th call is the insert for the k-th entry, and a completed run has
\* issued one insert per entry.
C19_NoQueryWithoutCheck ==
    ~check_duplicate =>
        /\ \A k \in DOMAIN calls : calls[k].op = "insert" /\ calls[k].idx = k
                                      /\ calls[k].entry = entries[k]
        /\ pc = "loop" => Len(calls) = i
        /\ outcome = "success" => Len(calls) = Len(entries)

\* the run is complete and the calendar held a match for its first entry
C19_Witness ==
    /\ ~check_duplicate /\ pc = "ended" /\ outcome = "success"
    /\ Len(entries) = MaxEntries
    /\ calAtStart # <<>>
    /\ calAtStart[1].summary = entries[1].description
    /\ calAtStart[1].start = entries[1].start /\ calAtStart[1].end = entries[1].end

\* create_event has just returned `result` for the i-th entry
Returned == result # None /\ (pc = "loop" \/ outcome = "success")

\* the event without its is_existing flag
Unmarked(ev) == [id |-> ev.id, summary |-> ev.summary, start |-> ev.start, end |-> ev.end]

\* C20: the event create_event returned has is_existing = TRUE exactly when
\* its last call was the list call, the event being one the calendar held
\* with the entry's description, and is_existing = FALSE exactly when its
\* last call was the insert, the event being the newest of the calendar;
\* each finished entry adds one to total_skipped when check_duplicate is on
\* and the returned event has is_existing = TRUE, else one to total_created.
C20_IsExistingFlag ==
    /\ [](Returned =>
            /\ calls # <<>> /\ calls[Len(calls)].idx = i
            /\ result.is_existing <=> calls[Len(calls)].op = "list"
            /\ result.is_existing =>
                  /\ \E k \in DOMAIN calendar : calendar[k] = Unmarked(result)
                  /\ result.summary = entries[i].description
                  /\ calls[Len(calls)].ok
            /\ ~result.is_existing =>
                  /\ calls[Len(calls)].op = "insert"
                  /\ calendar[Len(calendar)] = Unmarked(result)
                  /\ result.id \in synced)
    /\ [][i' = i + 1 =>
             /\ (total_skipped' = total_skipped + 1)
                    <=> (check_duplicate /\ result'.is_existing)
             /\ (total_created' = total_created + 1)
                    <=> ~(check_duplicate /\ result'.is_existing)
             /\ total_skipped' + total_created' = total_skipped + total_created + 1]_vars

\* one entry was found in the calendar, the next was inserted
C20_Witness ==
    /\ Returned /\ ~result.is_existing /\ check_duplicate
    /\ total_skipped = 1 /\ total_created = 1 /\ Len(calls) = 3

\* one of the two intervals lies within the other
FullOverlap(a, b) ==
    \/ a.start <= b.start /\ b.end <= a.end
    \/ b.start <= a.start /\ a.end <= b.end

\* a run with check_duplicate on, started on an empty calendar, over two
\* entries with the same description and fully overlapping intervals
TwinBatch ==
    /\ check_duplicate /\ calAtStart = <<>> /\ Len(entries) = 2
    /\ entries[1].description = entries[2].description
    /\ FullOverlap(entries[1], entries[2])

\* C21: a run with check_duplicate on over two entries with the same
\* description and fully overlapping intervals, started on an empty
\* calendar, never inserts more than one event; when it completes, the first
\* entry was created and the second was matched against that event and
\* counted as skipped.
C21_TwinEntries ==
    TwinBatch =>
        /\ Len(calendar) <= 1
        /\ outcome = "success" =>
              /\ total_created = 1 /\ total_skipped = 1
              /\ Len(calendar) = 1
              /\ calendar[1].summary = entries[1].description
              /\ calendar[1].start = entries[1].start
              /\ calendar[1].end = entries[1].end
              /\ result = Mark(calendar[1], TRUE)
              /\ Len(calls) = 3 /\ calls[2].op = "insert" /\ calls[2].idx = 1
              /\ calls[3].op = "list" /\ calls[3].idx = 2

\* the two entries are equal and the service reads the range exclusively
C21_Witness ==
    /\ TwinBatch /\ outcome = "success" /\ exclusiveBounds
    /\ entries[1] = entries[2] /\ total_skipped = 1

\* the step appends a list call to the calls of the run
ListIssued ==
    /\ Len(calls') = Len(calls) + 1
    /\ calls'[Len(calls')].op = "list"

\* C22: a step of find_existing_event, whether the list call returns a
\* match, returns none or raises, leaves the events of the calendar and the
\* set of events sync inserted as they were.
C22_FindIsReadOnly ==
    [][ListIssued => (calendar' = calendar /\ synced' = synced)]_vars

\* the list call has just returned a match
C22_Witness ==
    /\ pc = "queried" /\ existing_event # None
    /\ calls[Len(calls)].op = "list" /\ calls[Len(calls)].ok
    /\ \E k \in DOMAIN calendar : calendar[k].id = existing_event.id

\* C23: a list call that failed is the last call of its run: the run has
\* ended with the error message, the entry of the call is recorded as the
\* failed one and is counted neither as created nor as skipped, and no other
\* call, list or insert, was issued for it.
C23_ListFailureSurfaces ==
    \A k \in DOMAIN calls :
        (calls[k].op = "list" /\ ~calls[k].ok) =>
            /\ k = Len(calls)
            /\ pc = "ended" /\ outcome = "error" /\ "error" \in output
            /\ failed = calls[k].idx
            /\ total_created + total_skipped = calls[k].idx - 1
            /\ \A j \in DOMAIN calls : j # k => calls[j].idx # calls[k].idx

\* the list call for the second entry failed after the first was created
C23_Witness ==
    /\ pc = "ended" /\ outcome = "error" /\ failed = 2
    /\ Len(calls) = 3 /\ calls[2].op = "insert" /\ calls[3].op = "list"
    /\ ~calls[3].ok /\ ~RangeRejected(entries[2].start, entries[2].end)

\* C24: every remote call that raised in the run left a line in its output:
\* the time-entry request, a project lookup, a calendar list or insert.
C24_NoSilentError ==
    /\ fetch = "failed" => "fetch_error" \in output
    /\ fetch = "partial" => output \cap {"lookup_error", "fetch_error", "error"} # {}
    /\ failed # 0 => "error" \in output
    /\ (pc = "ended" /\ outcome = "error") => "error" \in output

\* C25: the process is never blocked in a remote call that has no time
\* limit.
C25_BoundedWait == pc # "fetching"

Covered(e) ==
    \E k \in DOMAIN calendar :
        /\ calendar[k].summary = e.description
        /\ calendar[k].start <= e.end /\ e.start <= calendar[k].end

\* C27: in a non-preview run with check_duplicate on, every entry the loop
\* has finished is covered by an event of the calendar; after a completed
\* run every entry is.
C27_EveryEntryCovered ==
    (check_duplicate /\ ~preview /\ service) =>
        /\ \A k \in 1..i : Covered(entries[k])
        /\ (pc = "ended" /\ outcome = "success") =>
              \A k \in DOMAIN entries : Covered(entries[k])

\* one entry was matched by an event of other times that the calendar held
\* before the run, the other was created
C27_Witness ==
    /\ check_duplicate /\ pc = "ended" /\ outcome = "success"
    /\ Len(entries) = 2 /\ total_created = 1 /\ total_skipped = 1
    /\ result.is_existing /\ result.id \notin synced
    /\ (result.start # entries[2].start \/ result.end # entries[2].end)

\* C28: once the user has declined the confirmation the run has ended with
\* the cancel message, without a calendar session, without a calendar call
\* and with the calendar as the run found it.
C28_DeclineIsCancel ==
    (outcome = "cancelled" \/ "cancelled" \in output) =>
        /\ pc = "ended" /\ outcome = "cancelled" /\ "cancelled" \in output
        /\ ~preview /\ entries # <<>>
        /\ ~service /\ calls = <<>>
        /\ total_created = 0 /\ total_skipped = 0
        /\ calendar = calAtStart

\* declined in a second run, after a first that created events
C28_Witness ==
    /\ outcome = "cancelled" /\ pc = "ended"
    /\ Len(runs) = 1 /\ runs[1].created = 2 /\ ~check_duplicate

\* C29: while the output shows that update_calendar_id returned True, the
\* .env file and the global of settings.py both hold the id that was
\* picked; a step in which it returns False changes neither, and the
\* command goes on to its end without the message of an exception that
\* left update_calendar_id.
C29_UpdateCalendarId ==
    /\ []("calendar_set" \in output =>
            \E id \in CalendarIds :
                id \in output /\ envFile = id /\ GOOGLE_CALENDAR_ID = id)
    /\ [][(pc = "menu" /\ "calendar_failed" \in output') =>
             /\ GOOGLE_CALENDAR_ID' = GOOGLE_CALENDAR_ID
             /\ envFile' = envFile
             /\ pc' = "shown"
             /\ "error" \notin output' /\ "calendar_set" \notin output']_vars

\* the file could not be written, after an earlier pick that was stored
C29_Witness ==
    /\ "calendar_failed" \in output /\ pc = "shown"
    /\ GOOGLE_CALENDAR_ID # idAtImport /\ envFile = GOOGLE_CALENDAR_ID

=============================================================================
